---- MODULE Spec2Model ----
(***************************************************************************)
(* A model of the request builder and execution pipeline of the package    *)
(* github.com/liujianping/api (api.go): the Agent, its builder calls, Do   *)
(* and the decode helpers.                                                 *)
(*                                                                         *)
(* Bytes are modelled as small naturals, a body as a sequence of bytes, an *)
(* io.Reader as the bytes it has left to deliver (or the nil interface),   *)
(* and an error as a record (kind, msg); NilErr is Go's nil error.         *)
(***************************************************************************)
EXTENDS Integers, Sequences, FiniteSets

VARIABLES agent, last, hist

vars == <<agent, last, hist>>

(* ------------------------------ bounds -------------------------------- *)

\* the longest value list one query key may hold
MaxVals == 2
\* the longest file list
MaxFiles == 2

(* ----------------------------- constants ------------------------------ *)

POST == "POST"
GET == "GET"
HEAD == "HEAD"
PUT == "PUT"
DELETE == "DELETE"
PATCH == "PATCH"

StatusOK == 200
StatusInternalServerError == 500

\* the tag-to-MIME table; a missing key yields Go's zero value, ""
TypeTags == {"html", "json", "xml", "text", "urlencoded", "form", "form-data", "multipart"}
types(t) ==
  CASE t = "html" -> "text/html"
    [] t = "json" -> "application/json"
    [] t = "xml" -> "application/xml"
    [] t = "text" -> "text/plain"
    [] t \in {"urlencoded", "form", "form-data"} -> "application/x-www-form-urlencoded"
    [] t = "multipart" -> "multipart/form-data"
    [] OTHER -> ""

(* ------------------------------ errors -------------------------------- *)

NilErr == [kind |-> "nil", msg |-> <<>>]
Err(kind) == [kind |-> kind, msg |-> <<>>]
\* fmt.Errorf(s): an error whose message is s
Errorf(s) == [kind |-> "errorf", msg |-> s]
MarshalErrs == {Err("json: unsupported type"), Err("xml: unsupported type"),
                Err("jsonpb: marshal")}

(* ------------------------------ readers ------------------------------- *)

NilReader == [isnil |-> TRUE, rest |-> <<>>]
NewReader(bytes) == [isnil |-> FALSE, rest |-> bytes]

(* --------------------------- url.Values ------------------------------- *)

Keys == {"a", "b"}
Vals == {"1", "2"}
\* sort.Strings order of the keys, as used by Values.Encode
KeyOrder == <<"a", "b">>

EmptyValues == [k \in Keys |-> <<>>]
ValuesSet(v, key, value) == [v EXCEPT ![key] = <<value>>]
ValuesAdd(v, key, value) == [v EXCEPT ![key] = Append(@, value)]
ValuesDel(v, key) == [v EXCEPT ![key] = <<>>]

\* url.ParseQuery: the pairs of the raw query grouped by key, order kept
RECURSIVE ParseQuery(_)
ParseQuery(raw) ==
  IF raw = <<>> THEN EmptyValues
  ELSE LET n == Len(raw)
           p == raw[n]
       IN ValuesAdd(ParseQuery(SubSeq(raw, 1, n - 1)), p[1], p[2])

\* Values.Encode: key=value pairs, keys sorted, the values of a key in order
RECURSIVE EncodeFrom(_, _)
EncodeFrom(v, i) ==
  IF i > Len(KeyOrder) THEN <<>>
  ELSE [j \in 1..Len(v[KeyOrder[i]]) |-> <<KeyOrder[i], v[KeyOrder[i]][j]>>]
       \o EncodeFrom(v, i + 1)
Encode(v) == EncodeFrom(v, 1)

\* "for k, v := range b { for _, vv := range v { q.Add(k, vv) } }"
MergeReplace(q, b) == [k \in Keys |-> IF b[k] # <<>> THEN b[k] ELSE q[k]]
MergeValues(q, b) == [k \in Keys |-> q[k] \o b[k]]

(* ------------------------------ bodies -------------------------------- *)

\* the values handed to the marshalling builder calls
Objs == {"lt", "chan"}

\* json.Marshal followed by the optional unescaping of <, >, &:
\* "kv" is plain, "lt" holds a '<', which json.Marshal escapes (bytes 2,2) and the
\* unescape flag turns back into one byte; "chan" cannot be marshalled
JSONMarshal(v, unescape) ==
  CASE v = "kv" -> [data |-> <<0, 1>>, err |-> NilErr]
    [] v = "lt" -> [data |-> IF unescape THEN <<0, 2>> ELSE <<0, 2, 2>>, err |-> NilErr]
    [] OTHER -> [data |-> <<>>, err |-> Err("json: unsupported type")]

XMLMarshal(v) ==
  CASE v = "kv" -> [data |-> <<1, 0>>, err |-> NilErr]
    [] v = "lt" -> [data |-> <<1, 2>>, err |-> NilErr]
    [] OTHER -> [data |-> <<>>, err |-> Err("xml: unsupported type")]

\* jsonpb.Marshaler.Marshal into a buffer: what was written before a failure
\* stays in the buffer
PBMarshal(v) ==
  CASE v = "kv" -> [data |-> <<0, 1>>, err |-> NilErr]
    [] v = "lt" -> [data |-> <<0, 2, 2>>, err |-> NilErr]
    [] OTHER -> [data |-> <<0>>, err |-> Err("jsonpb: marshal")]

\* url.Values(form).Encode() as bytes: one byte per pair
Forms == {EmptyValues, ValuesSet(EmptyValues, "a", "1")}
FormEncode(form) == [i \in 1..Len(Encode(form)) |-> 2]

\* attachments: field name, file name and payload
AllFiles == {[Fieldname |-> 0, Filename |-> 1, Data |-> <<1>>],
             [Fieldname |-> 1, Filename |-> 2, Data |-> <<>>]}

\* multipart.Writer: per file a boundary line (byte 3), the part header
\* (field name, file name) and the payload; Close writes the last boundary
RECURSIVE MultipartParts(_)
MultipartParts(files) ==
  IF files = <<>> THEN <<>>
  ELSE <<3, Head(files).Fieldname, Head(files).Filename>> \o Head(files).Data
       \o MultipartParts(Tail(files))
MultipartBody(files) == MultipartParts(files) \o <<3>>
FormDataContentType == "multipart/form-data; boundary=B"

\* the number of parts of a multipart body: boundary lines less the last
NumParts(body) ==
  LET n == Cardinality({i \in DOMAIN body : body[i] = 3})
  IN IF n = 0 THEN 0 ELSE n - 1

(* ------------------------------ cipher -------------------------------- *)

\* the caller's Cipher: a byte-wise rotation and its inverse
Encrypt(bytes) == [i \in DOMAIN bytes |-> (bytes[i] + 1) % 4]
Decrypt(bytes) == [i \in DOMAIN bytes |-> (bytes[i] + 3) % 4]

(* ------------------------------ headers ------------------------------- *)

HKeys == {"Content-Type", "Accept"}
HVals == {"text/plain", "image/png"}
\* textproto.CanonicalMIMEHeaderKey, on the spellings the callers use
HSpellings == {"Content-Type", "content-type", "Accept"}
CanonicalKey(k) == IF k = "content-type" THEN "Content-Type" ELSE k

EmptyHeader == [k \in HKeys |-> <<>>]
HeaderSet(h, key, value) == [h EXCEPT ![CanonicalKey(key)] = <<value>>]
HeaderAdd(h, key, value) == [h EXCEPT ![CanonicalKey(key)] = Append(@, value)]
HeaderDel(h, key) == [h EXCEPT ![CanonicalKey(key)] = <<>>]

(* ----------------------------- responses ------------------------------ *)

\* *http.Response: nil, or a status, a body, the X-CIPHER-ENCODED header
\* (lower-cased value "true") and whether reading the body succeeds
NilResp == [isnil |-> TRUE, StatusCode |-> 0, Body |-> <<>>, encoded |-> FALSE,
            readable |-> TRUE]
Statuses == {StatusOK, 201, 404}
RespBodies == {<<0, 1>>, <<1, 2>>}
Responses ==
  {r \in [isnil : {FALSE}, StatusCode : Statuses, Body : RespBodies,
          encoded : BOOLEAN, readable : BOOLEAN] : r.readable \/ r.Body = <<0, 1>>}

\* what a.conn.Do(req) may return: a response, or an error and no response
TransportOutcomes ==
  [resp : Responses, err : {NilErr}] \cup [resp : {NilResp}, err : {Err("transport")}]

\* the response a substituting processor hands back
SwapResp == [isnil |-> FALSE, StatusCode |-> StatusOK, Body |-> <<0, 3>>,
             encoded |-> FALSE, readable |-> TRUE]

\* the caller's ResponseProcessor functions
Processors == {"pass", "fail", "swap"}
RunProcessor(p, resp) ==
  CASE p = "pass" -> [resp |-> resp, err |-> NilErr]
    [] p = "fail" -> [resp |-> resp, err |-> Err("processor error")]
    [] OTHER -> [resp |-> SwapResp, err |-> NilErr]

(* ------------------------------- Agent -------------------------------- *)

\* the raw queries of the URLs the constructors are given
RawQueries == {<<>>, <<<<"a", "1">>>>, <<<<"b", "2">>, <<"a", "1">>, <<"b", "1">>>>}

URL(raw) ==
  [u |-> raw,
   t |-> types("html"),
   m |-> GET,
   headerIn |-> EmptyHeader,
   query |-> EmptyValues,
   files |-> <<>>,
   data |-> NilReader,
   length |-> 0,
   cipher |-> FALSE,
   Error |-> NilErr,
   debug |-> FALSE,
   processor |-> "none"]

AgentMethod(a, m) == [a EXCEPT !.m = m]

Get(raw) == AgentMethod(URL(raw), GET)
Post(raw) == AgentMethod(URL(raw), POST)
Patch(raw) == AgentMethod(URL(raw), PATCH)
Put(raw) == AgentMethod(URL(raw), PUT)
HeadAgent(raw) == AgentMethod(URL(raw), HEAD)
HTTP(raw) == URL(raw)
HTTPs(raw) == URL(raw)

Constructors == {"URL", "Get", "Post", "Patch", "Put", "Head", "HTTP", "HTTPs"}
Construct(c, raw) ==
  CASE c = "Get" -> Get(raw)
    [] c = "Post" -> Post(raw)
    [] c = "Patch" -> Patch(raw)
    [] c = "Put" -> Put(raw)
    [] c = "Head" -> HeadAgent(raw)
    [] c = "HTTP" -> HTTP(raw)
    [] c = "HTTPs" -> HTTPs(raw)
    [] OTHER -> URL(raw)

AgentSetCipher(a, on) == [a EXCEPT !.cipher = on]
AgentResponseProcessor(a, p) == [a EXCEPT !.processor = p]
AgentDebug(a, flag) == [a EXCEPT !.debug = flag]

AgentQueryGet(a) == MergeValues(ParseQuery(a.u), a.query)
AgentQuerySet(a, key, value) == [a EXCEPT !.query = ValuesSet(@, key, value)]
AgentQueryAdd(a, key, value) == [a EXCEPT !.query = ValuesAdd(@, key, value)]
AgentQueryDel(a, key) == [a EXCEPT !.query = ValuesDel(@, key)]

RECURSIVE AddAll(_, _, _)
AddAll(h, key, vs) ==
  IF vs = <<>> THEN h ELSE AddAll(HeaderAdd(h, key, Head(vs)), key, Tail(vs))
AgentSetHead(a, hdr) ==
  [a EXCEPT !.headerIn = AddAll(AddAll(@, "Content-Type", hdr["Content-Type"]),
                                "Accept", hdr["Accept"])]
AgentHeadSet(a, key, value) == [a EXCEPT !.headerIn = HeaderSet(@, key, value)]
AgentHeadAdd(a, key, value) == [a EXCEPT !.headerIn = HeaderAdd(@, key, value)]
AgentHeadDel(a, key) == [a EXCEPT !.headerIn = HeaderDel(@, key)]

\* ContentType stores the MIME type in the method field
AgentContentType(a, t) == IF t \in TypeTags THEN [a EXCEPT !.m = types(t)] ELSE a

AgentFormData(a, form) ==
  [a EXCEPT !.data = NewReader(FormEncode(form)),
            !.length = Len(FormEncode(form)),
            !.t = "form"]

\* args is the variadic argument list: (), (v) or (v, unescape)
AgentJSONData(a, args) ==
  LET r == IF Len(args) = 1 THEN JSONMarshal(args[1], FALSE)
           ELSE JSONMarshal(args[1], args[2])
  IN IF Len(args) \in {1, 2}
     THEN [a EXCEPT !.data = NewReader(r.data), !.length = Len(r.data),
                    !.Error = r.err, !.t = "json"]
     ELSE [a EXCEPT !.t = "json"]

AgentPBData(a, obj) ==
  LET r == PBMarshal(obj)
  IN [a EXCEPT !.data = NewReader(r.data), !.Error = r.err,
               !.length = Len(r.data), !.t = "json"]

AgentXMLData(a, obj) ==
  LET r == XMLMarshal(obj)
  IN [a EXCEPT !.data = NewReader(r.data), !.length = Len(r.data),
               !.Error = r.err, !.t = "xml"]

AgentFileData(a, files) == [a EXCEPT !.files = @ \o files, !.t = "multipart"]

(* --------------------------------- Do --------------------------------- *)

\* net/http validMethod: a method is a token, which a MIME type (it holds
\* a '/') is not
ValidMethod(m) == m \in {GET, POST, HEAD, PUT, DELETE, PATCH}

NoReq == [built |-> FALSE, Method |-> "", Header |-> EmptyHeader, RawQuery |-> <<>>,
          ContentLength |-> 0, Body |-> <<>>]

\* the state of one run of Do: the agent, the request, the reader behind
\* req.Body (shared: it is the very reader a.data holds), the locals resp
\* and err, the steps taken (log), and how the run ends (out: "run" while it
\* goes on, "return" with ret, or "panic"); fail names the step that failed,
\* processed and pret record the call of the response processor
StartDo(a) ==
  [a |-> a, ct |-> "", req |-> NoReq, reqBody |-> NilReader, shared |-> FALSE,
   resp |-> NilResp, err |-> NilErr, sent |-> FALSE, log |-> <<>>,
   out |-> "run", ret |-> [resp |-> NilResp, err |-> NilErr], fail |-> "none",
   processed |-> FALSE, pret |-> [resp |-> NilResp, err |-> NilErr]]

Return(c, resp, err) == [c EXCEPT !.out = "return", !.ret = [resp |-> resp, err |-> err]]
Failed(c, step) == [c EXCEPT !.fail = step]
Panic(c, step) == [c EXCEPT !.out = "panic", !.fail = step]

\* "if a.Error != nil"
NoStickyCheck(a) == FALSE
HasStickyError(a) == a.Error # NilErr

StepSticky(c) ==
  IF HasStickyError(c.a) THEN Return(Failed(c, "sticky"), NilResp, c.a.Error) ELSE c

\* the content type, and the multipart body when there are files
StepContentType(c) ==
  IF c.out # "run" THEN c
  ELSE IF Len(c.a.files) > 0
       THEN [c EXCEPT !.a.data = NewReader(MultipartBody(c.a.files)),
                      !.ct = FormDataContentType]
       ELSE [c EXCEPT !.ct = types(c.a.t)]

\* http.NewRequest(a.m, a.u.String(), a.data): req.Body wraps a.data itself
StepNewRequest(c) ==
  IF c.out # "run" THEN c
  ELSE IF ~ValidMethod(c.a.m)
       THEN Return(Failed([c EXCEPT !.a.Error = Err("net/http: invalid method")], "newrequest"),
                   NilResp, Err("net/http: invalid method"))
       ELSE [c EXCEPT !.req = [built |-> TRUE, Method |-> c.a.m, Header |-> EmptyHeader,
                               RawQuery |-> c.a.u,
                               ContentLength |-> Len(c.a.data.rest), Body |-> <<>>],
                      !.reqBody = c.a.data,
                      !.shared = ~c.a.data.isnil]

\* "req.Header = a.headerIn": one map, so Set writes the agent's too
StepHeaders(c) ==
  IF c.out # "run" THEN c
  ELSE LET h == HeaderSet(c.a.headerIn, "Content-Type", c.ct)
       IN [c EXCEPT !.a.headerIn = h, !.req.Header = h]

StepQuery(c) ==
  IF c.out # "run" THEN c
  ELSE [c EXCEPT !.req.RawQuery = Encode(MergeValues(ParseQuery(c.req.RawQuery), c.a.query))]

\* httputil.DumpRequest(req, true) reads req.Body to its end and puts a
\* copy of what it read in its place
StepDumpRequest(c) ==
  IF c.out # "run" \/ ~c.a.debug THEN c
  ELSE IF c.reqBody.isnil THEN [c EXCEPT !.log = Append(@, "dumprequest")]
       ELSE [c EXCEPT !.log = Append(@, "dumprequest"),
                      !.reqBody = NewReader(c.reqBody.rest),
                      !.shared = FALSE,
                      !.a.data = IF c.shared THEN NewReader(<<>>) ELSE @]

\* ioutil.ReadAll(a.data), Encrypt, and a new buffer in a.data; the
\* request, built before, keeps the reader it has
StepEncrypt(c, encOk) ==
  IF c.out # "run" \/ ~c.a.cipher THEN c
  ELSE IF c.a.data.isnil THEN Panic(c, "readall: nil reader")
  ELSE IF ~encOk
       THEN Return(Failed([c EXCEPT !.log = Append(@, "encrypt"),
                                    !.a.data = NewReader(<<>>),
                                    !.reqBody = IF c.shared THEN NewReader(<<>>) ELSE @],
                          "encrypt"),
                   NilResp, Err("encrypt"))
       ELSE [c EXCEPT !.log = Append(@, "encrypt"),
                      !.a.data = NewReader(Encrypt(c.a.data.rest)),
                      !.a.length = Len(Encrypt(c.a.data.rest)),
                      !.reqBody = IF c.shared THEN NewReader(<<>>) ELSE @,
                      !.shared = FALSE]

\* a.conn.Do(req): the transport sends what req.Body has left; a reader it
\* shares with a.data is at its end afterwards
StepDispatch(c, tr) ==
  IF c.out # "run" THEN c
  ELSE [c EXCEPT !.log = Append(@, "transport"),
                 !.sent = TRUE,
                 !.req.Body = c.reqBody.rest,
                 !.resp = tr.resp,
                 !.err = tr.err,
                 !.fail = IF tr.err # NilErr THEN "transport" ELSE "none",
                 !.a.data = IF c.shared /\ ~tr.resp.isnil THEN NewReader(<<>>) ELSE @]

\* the decryption of a response marked X-CIPHER-ENCODED
StepDecrypt(c, decOk) ==
  IF c.out # "run" \/ ~c.a.cipher THEN c
  ELSE IF c.resp.isnil THEN Panic(c, "nil response")
  ELSE IF ~c.resp.encoded THEN c
  ELSE IF ~c.resp.readable THEN Return(Failed(c, "readbody"), NilResp, Err("read body"))
  ELSE IF ~decOk
       THEN Return(Failed([c EXCEPT !.log = Append(@, "decrypt")], "decrypt"),
                   NilResp, Err("decrypt"))
       ELSE [c EXCEPT !.log = Append(@, "decrypt"),
                      !.resp.Body = Decrypt(@),
                      !.resp.encoded = FALSE]

\* httputil.DumpResponse(resp, true) dereferences resp
StepDumpResponse(c) ==
  IF c.out # "run" \/ ~c.a.debug THEN c
  ELSE IF c.resp.isnil THEN Panic(c, "nil response")
       ELSE [c EXCEPT !.log = Append(@, "dumpresponse")]

\* "if a.processor != nil && err == nil"
ProcessorAlways(a, err) == a.processor # "none"
ProcessorRuns(a, err) == a.processor # "none" /\ err = NilErr

StepProcessor(c) ==
  IF c.out # "run" THEN c
  ELSE IF ProcessorRuns(c.a, c.err)
       THEN LET r == RunProcessor(c.a.processor, c.resp)
            IN Return([c EXCEPT !.log = Append(@, "processor"), !.processed = TRUE,
                                !.pret = r],
                      r.resp, r.err)
       ELSE Return(c, c.resp, c.err)

AgentDo(a, tr, encOk, decOk) ==
  StepProcessor(StepDumpResponse(StepDecrypt(StepDispatch(StepEncrypt(
    StepDumpRequest(StepQuery(StepHeaders(StepNewRequest(StepContentType(
      StepSticky(StartDo(a))))))), encOk), tr), decOk)))

(* ------------------------------ helpers ------------------------------- *)

\* "resp.StatusCode != http.StatusOK" is the helpers' test of failure
IsBelow400(code) == code < 400
IsStatusOK(code) == code = StatusOK

\* the decoders: a JSON document starts with byte 0, an XML one with byte 1;
\* a body that cannot be read cannot be decoded
JSONDecode(resp) ==
  IF resp.readable /\ resp.Body # <<>> /\ resp.Body[1] = 0
  THEN [err |-> NilErr, val |-> Tail(resp.Body)]
  ELSE [err |-> Err("json: decode"), val |-> <<>>]
XMLDecode(resp) ==
  IF resp.readable /\ resp.Body # <<>> /\ resp.Body[1] = 1
  THEN [err |-> NilErr, val |-> Tail(resp.Body)]
  ELSE [err |-> Err("xml: decode"), val |-> <<>>]
JSONPBDecode(resp) ==
  IF resp.readable /\ resp.Body # <<>> /\ resp.Body[1] = 0
  THEN [err |-> NilErr, val |-> Tail(resp.Body)]
  ELSE [err |-> Err("jsonpb: decode"), val |-> <<>>]
Decode(kind, resp) ==
  CASE kind = "JSON" -> JSONDecode(resp)
    [] kind = "XML" -> XMLDecode(resp)
    [] OTHER -> JSONPBDecode(resp)

\* what a helper hands back: the agent, the run of Do, the status code, the
\* error, the body (Bytes, Text), whether the decoder ran and what it stored
HelperRet(a, d, code, err, body, decoded, target) ==
  [a |-> a, d |-> d, code |-> code, err |-> err, body |-> body,
   decoded |-> decoded, target |-> target]

\* a Status that hands the error of Do back and leaves a.Error alone
StatusKeepsError(a, tr, encOk, decOk) ==
  LET d == AgentDo(a, tr, encOk, decOk)
  IN IF d.out = "panic" THEN HelperRet(d.a, d, 0, NilErr, <<>>, FALSE, <<>>)
     ELSE IF d.ret.err # NilErr
     THEN HelperRet(d.a, d, StatusInternalServerError, d.ret.err, <<>>, FALSE, <<>>)
     ELSE HelperRet(d.a, d, d.ret.resp.StatusCode, NilErr, <<>>, FALSE, <<>>)
AgentStatus(a, tr, encOk, decOk) ==
  LET d == AgentDo(a, tr, encOk, decOk)
  IN IF d.out = "panic" THEN HelperRet(d.a, d, 0, NilErr, <<>>, FALSE, <<>>)
     ELSE IF d.ret.err # NilErr
     THEN HelperRet([d.a EXCEPT !.Error = d.ret.err], d, StatusInternalServerError,
                    d.ret.err, <<>>, FALSE, <<>>)
     ELSE HelperRet(d.a, d, d.ret.resp.StatusCode, NilErr, <<>>, FALSE, <<>>)

AgentBytes(a, tr, encOk, decOk) ==
  LET d == AgentDo(a, tr, encOk, decOk)
      resp == d.ret.resp
  IN IF d.out = "panic" THEN HelperRet(d.a, d, 0, NilErr, <<>>, FALSE, <<>>)
     ELSE IF d.ret.err # NilErr
     THEN HelperRet([d.a EXCEPT !.Error = d.ret.err], d, StatusInternalServerError,
                    d.ret.err, <<>>, FALSE, <<>>)
     ELSE IF ~IsStatusOK(resp.StatusCode)
     THEN IF ~resp.readable
          THEN HelperRet([d.a EXCEPT !.Error = Err("read body")], d, resp.StatusCode,
                         Errorf(<<resp.StatusCode>>), <<>>, FALSE, <<>>)
          ELSE HelperRet([d.a EXCEPT !.Error = Errorf(resp.Body)], d, resp.StatusCode,
                         Errorf(resp.Body), <<>>, FALSE, <<>>)
     ELSE IF ~resp.readable
     THEN HelperRet([d.a EXCEPT !.Error = Err("read body")], d, resp.StatusCode,
                    Err("read body"), <<>>, TRUE, <<>>)
     ELSE HelperRet(d.a, d, resp.StatusCode, d.a.Error, resp.Body, TRUE, resp.Body)

AgentText(a, tr, encOk, decOk) == AgentBytes(a, tr, encOk, decOk)

\* JSON, JSONPB and XML differ in the decoder alone; hasObj: "obj != nil"
AgentDecode(kind, a, hasObj, tr, encOk, decOk) ==
  LET d == AgentDo(a, tr, encOk, decOk)
      resp == d.ret.resp
      dec == Decode(kind, resp)
  IN IF d.out = "panic" THEN HelperRet(d.a, d, 0, NilErr, <<>>, FALSE, <<>>)
     ELSE IF d.ret.err # NilErr
     THEN HelperRet([d.a EXCEPT !.Error = d.ret.err], d, StatusInternalServerError,
                    d.ret.err, <<>>, FALSE, <<>>)
     ELSE IF ~IsStatusOK(resp.StatusCode)
     THEN IF ~resp.readable
          THEN HelperRet([d.a EXCEPT !.Error = Err("read body")], d, resp.StatusCode,
                         Errorf(<<resp.StatusCode>>), <<>>, FALSE, <<>>)
          ELSE HelperRet([d.a EXCEPT !.Error = Errorf(<<resp.StatusCode>>)], d,
                         resp.StatusCode, Errorf(resp.Body), <<>>, FALSE, <<>>)
     ELSE IF hasObj
     THEN IF dec.err # NilErr
          THEN HelperRet([d.a EXCEPT !.Error = dec.err], d, resp.StatusCode, dec.err,
                         <<>>, TRUE, <<>>)
          ELSE HelperRet(d.a, d, resp.StatusCode, d.a.Error, <<>>, TRUE, dec.val)
     ELSE HelperRet(d.a, d, resp.StatusCode, d.a.Error, <<>>, FALSE, <<>>)

AgentJSON(a, hasObj, tr, encOk, decOk) == AgentDecode("JSON", a, hasObj, tr, encOk, decOk)
AgentJSONPB(a, hasObj, tr, encOk, decOk) == AgentDecode("JSONPB", a, hasObj, tr, encOk, decOk)
AgentXML(a, hasObj, tr, encOk, decOk) == AgentDecode("XML", a, hasObj, tr, encOk, decOk)

(* --------------------------- state and steps -------------------------- *)

\* last: what the latest call did and handed back (op is "build" for a
\* builder call); entry and entryData are a.Error and a.data when it began,
\* terr is the error of the transport.
\* hist: the argument of the latest Method call (the constructor's included),
\* per (key, value) how often the query mutators have it on record, the
\* latest body-encoding call, and whether a helper has handed back an error
\* since the latest body-encoding call (stuck is that flag when a call began).
NoLast ==
  [op |-> "build", entry |-> NilErr, entryData |-> NilReader, panic |-> FALSE,
   ret |-> [resp |-> NilResp, err |-> NilErr], sent |-> FALSE, req |-> NoReq,
   terr |-> NilErr, log |-> <<>>, fail |-> "none", processed |-> FALSE,
   pret |-> [resp |-> NilResp, err |-> NilErr],
   code |-> 0, err |-> NilErr, body |-> <<>>, decoded |-> FALSE, target |-> <<>>,
   values |-> EmptyValues, stuck |-> FALSE]

\* the record of a run d of Do that began in agent state a
DoLast(op, a, d) ==
  [NoLast EXCEPT !.op = op, !.entry = a.Error, !.entryData = a.data,
                 !.panic = (d.out = "panic"), !.ret = d.ret, !.sent = d.sent,
                 !.req = d.req, !.terr = d.err, !.log = d.log, !.fail = d.fail,
                 !.processed = d.processed, !.pret = d.pret,
                 !.stuck = hist.failed]

\* the record of a helper call that handed back h
HelperLast(op, a, h) ==
  [DoLast(op, a, h.d) EXCEPT !.code = h.code, !.err = h.err, !.body = h.body,
                             !.decoded = h.decoded, !.target = h.target]

\* the verb a constructor stands for
ConstructorVerb(c) ==
  CASE c = "Post" -> POST
    [] c = "Patch" -> PATCH
    [] c = "Put" -> PUT
    [] c = "Head" -> HEAD
    [] OTHER -> GET

NoneAdded == [p \in Keys \X Vals |-> 0]

InitWith(ctors, raws) ==
  \E c \in ctors, raw \in raws :
    /\ agent = Construct(c, raw)
    /\ last = NoLast
    /\ hist = [lastMethod |-> ConstructorVerb(c), added |-> NoneAdded,
               lastBody |-> "none", failed |-> FALSE]

Init == InitWith({"Post"}, {<<>>})

\* a panic ends the program
Alive == ~last.panic

SetCipher ==
  \E on \in BOOLEAN :
    /\ Alive
    /\ agent' = AgentSetCipher(agent, on)
    /\ last' = NoLast
    /\ UNCHANGED hist

ResponseProcessor ==
  \E p \in Processors \cup {"none"} :
    /\ Alive
    /\ agent' = AgentResponseProcessor(agent, p)
    /\ last' = NoLast
    /\ UNCHANGED hist

Debug ==
  \E flag \in BOOLEAN :
    /\ Alive
    /\ agent' = AgentDebug(agent, flag)
    /\ last' = NoLast
    /\ UNCHANGED hist

QueryGet ==
  /\ Alive
  /\ last' = [NoLast EXCEPT !.op = "QueryGet", !.values = AgentQueryGet(agent)]
  /\ UNCHANGED <<agent, hist>>

QuerySet ==
  \E key \in Keys, value \in Vals :
    /\ Alive
    /\ agent' = AgentQuerySet(agent, key, value)
    /\ last' = NoLast
    /\ hist' = [hist EXCEPT !.added =
                 [p \in Keys \X Vals |->
                    IF p[1] # key THEN @[p] ELSE IF p[2] = value THEN 1 ELSE 0]]

QueryAdd ==
  \E key \in Keys, value \in Vals :
    /\ Alive
    /\ Len(agent.query[key]) < MaxVals
    /\ agent' = AgentQueryAdd(agent, key, value)
    /\ last' = NoLast
    /\ hist' = [hist EXCEPT !.added[<<key, value>>] = @ + 1]

QueryDel ==
  \E key \in Keys :
    /\ Alive
    /\ agent' = AgentQueryDel(agent, key)
    /\ last' = NoLast
    /\ hist' = [hist EXCEPT !.added =
                 [p \in Keys \X Vals |-> IF p[1] # key THEN @[p] ELSE 0]]

HeaderArgs == {[EmptyHeader EXCEPT !["Content-Type"] = <<"text/plain">>],
               [EmptyHeader EXCEPT !["Accept"] = <<"image/png">>]}
SetHead ==
  \E hdr \in HeaderArgs :
    /\ Alive
    /\ \A k \in HKeys : Len(agent.headerIn[k]) + Len(hdr[k]) <= MaxVals
    /\ agent' = AgentSetHead(agent, hdr)
    /\ last' = NoLast
    /\ UNCHANGED hist

HeadSet ==
  \E key \in HSpellings, value \in HVals :
    /\ Alive
    /\ agent' = AgentHeadSet(agent, key, value)
    /\ last' = NoLast
    /\ UNCHANGED hist

HeadAdd ==
  \E key \in HSpellings, value \in HVals :
    /\ Alive
    /\ Len(agent.headerIn[CanonicalKey(key)]) < MaxVals
    /\ agent' = AgentHeadAdd(agent, key, value)
    /\ last' = NoLast
    /\ UNCHANGED hist

HeadDel ==
  \E key \in HSpellings :
    /\ Alive
    /\ agent' = AgentHeadDel(agent, key)
    /\ last' = NoLast
    /\ UNCHANGED hist

Method ==
  \E m \in {GET, POST, HEAD, PUT, DELETE, PATCH} :
    /\ Alive
    /\ agent' = AgentMethod(agent, m)
    /\ last' = NoLast
    /\ hist' = [hist EXCEPT !.lastMethod = m]

ContentType ==
  \E t \in TypeTags \cup {"yaml"} :
    /\ Alive
    /\ agent' = AgentContentType(agent, t)
    /\ last' = NoLast
    /\ UNCHANGED hist

FormData ==
  \E form \in Forms :
    /\ Alive
    /\ agent' = AgentFormData(agent, form)
    /\ last' = NoLast
    /\ hist' = [hist EXCEPT !.lastBody = "FormData", !.failed = FALSE]

JSONArgs == {<<>>} \cup {<<v>> : v \in Objs} \cup {<<v, TRUE>> : v \in Objs}
JSONData ==
  \E args \in JSONArgs :
    /\ Alive
    /\ agent' = AgentJSONData(agent, args)
    /\ last' = NoLast
    /\ hist' = [hist EXCEPT !.lastBody = "JSONData", !.failed = FALSE]

PBData ==
  \E obj \in Objs :
    /\ Alive
    /\ agent' = AgentPBData(agent, obj)
    /\ last' = NoLast
    /\ hist' = [hist EXCEPT !.lastBody = "PBData", !.failed = FALSE]

XMLData ==
  \E obj \in Objs :
    /\ Alive
    /\ agent' = AgentXMLData(agent, obj)
    /\ last' = NoLast
    /\ hist' = [hist EXCEPT !.lastBody = "XMLData", !.failed = FALSE]

FileArgs == {<<>>} \cup {<<f>> : f \in AllFiles} \cup {<<f, g>> : f, g \in AllFiles}
FileData ==
  \E files \in FileArgs :
    /\ Alive
    /\ Len(agent.files) + Len(files) <= MaxFiles
    /\ agent' = AgentFileData(agent, files)
    /\ last' = NoLast
    /\ hist' = [hist EXCEPT !.lastBody = "FileData", !.failed = FALSE]

\* the outcomes of Encrypt and Decrypt: either may fail when there is a cipher
CipherOutcomes == IF agent.cipher THEN BOOLEAN ELSE {TRUE}

Do ==
  \E tr \in TransportOutcomes, encOk, decOk \in CipherOutcomes :
    \E d \in {AgentDo(agent, tr, encOk, decOk)} :
      /\ Alive
      /\ agent' = d.a
      /\ last' = DoLast("Do", agent, d)
      /\ UNCHANGED hist

Status ==
  \E tr \in TransportOutcomes, encOk, decOk \in CipherOutcomes :
    \E h \in {AgentStatus(agent, tr, encOk, decOk)} :
      /\ Alive
      /\ agent' = h.a
      /\ last' = HelperLast("Status", agent, h)
      /\ hist' = [hist EXCEPT !.failed = @ \/ h.err # NilErr]

Bytes ==
  \E tr \in TransportOutcomes, encOk, decOk \in CipherOutcomes :
    \E h \in {AgentBytes(agent, tr, encOk, decOk)} :
      /\ Alive
      /\ agent' = h.a
      /\ last' = HelperLast("Bytes", agent, h)
      /\ hist' = [hist EXCEPT !.failed = @ \/ h.err # NilErr]

Text ==
  \E tr \in TransportOutcomes, encOk, decOk \in CipherOutcomes :
    \E h \in {AgentText(agent, tr, encOk, decOk)} :
      /\ Alive
      /\ agent' = h.a
      /\ last' = HelperLast("Text", agent, h)
      /\ hist' = [hist EXCEPT !.failed = @ \/ h.err # NilErr]

JSON ==
  \E tr \in TransportOutcomes, encOk, decOk \in CipherOutcomes, hasObj \in BOOLEAN :
    \E h \in {AgentJSON(agent, hasObj, tr, encOk, decOk)} :
      /\ Alive
      /\ agent' = h.a
      /\ last' = HelperLast("JSON", agent, h)
      /\ hist' = [hist EXCEPT !.failed = @ \/ h.err # NilErr]

JSONPB ==
  \E tr \in TransportOutcomes, encOk, decOk \in CipherOutcomes, hasObj \in BOOLEAN :
    \E h \in {AgentJSONPB(agent, hasObj, tr, encOk, decOk)} :
      /\ Alive
      /\ agent' = h.a
      /\ last' = HelperLast("JSONPB", agent, h)
      /\ hist' = [hist EXCEPT !.failed = @ \/ h.err # NilErr]

XML ==
  \E tr \in TransportOutcomes, encOk, decOk \in CipherOutcomes, hasObj \in BOOLEAN :
    \E h \in {AgentXML(agent, hasObj, tr, encOk, decOk)} :
      /\ Alive
      /\ agent' = h.a
      /\ last' = HelperLast("XML", agent, h)
      /\ hist' = [hist EXCEPT !.failed = @ \/ h.err # NilErr]

(* --------------------------- specifications --------------------------- *)

\* the execution pipeline: one body call, the cipher, the debug flag, the
\* response processor, and Do
Next ==
  \/ JSONData
  \/ SetCipher
  \/ Debug
  \/ ResponseProcessor
  \/ Do

Spec == Init /\ [][Next]_vars

\* the helpers and Do over the pipeline (no debug flag, no processor: they
\* act inside Do, which Spec covers)
NextDecode ==
  \/ JSONData
  \/ SetCipher
  \/ Do
  \/ Status
  \/ Bytes
  \/ Text
  \/ JSON
  \/ JSONPB
  \/ XML

SpecDecode == Init /\ [][NextDecode]_vars

\* the method: every constructor, Method, ContentType and Do
InitMethod == InitWith(Constructors, {<<>>})
NextMethod ==
  \/ Method
  \/ ContentType
  \/ FormData
  \/ Do

SpecMethod == InitMethod /\ [][NextMethod]_vars

\* the query: URLs with and without a query, the query mutators, QueryGet, Do
InitQuery == InitWith({"Get"}, RawQueries)
NextQuery ==
  \/ QuerySet
  \/ QueryAdd
  \/ QueryDel
  \/ QueryGet
  \/ Do

SpecQuery == InitQuery /\ [][NextQuery]_vars

\* the body: every body-encoding call, the cipher and Do
NextBody ==
  \/ FormData
  \/ JSONData
  \/ PBData
  \/ XMLData
  \/ FileData
  \/ SetCipher
  \/ Do

SpecBody == Init /\ [][NextBody]_vars

\* the headers: the header mutators, the body-encoding calls and Do
NextHeader ==
  \/ SetHead
  \/ HeadSet
  \/ HeadAdd
  \/ HeadDel
  \/ FormData
  \/ JSONData
  \/ PBData
  \/ XMLData
  \/ Do

SpecHeader == Init /\ [][NextHeader]_vars

(* ------------------------------- claims ------------------------------- *)

Range(f) == {f[i] : i \in DOMAIN f}
Count(seq, x) == Cardinality({i \in DOMAIN seq : seq[i] = x})

\* the calls that run Do
DoOps == {"Do", "Status", "Bytes", "Text", "JSON", "JSONPB", "XML"}
RanDo == last.op \in DoOps

\* C1: a run of Do that finds the sticky error set returns exactly that
\* error with a nil response, and the transport is not invoked, however
\* often Do is called.
StickyErrorShortCircuits ==
  (RanDo /\ last.entry # NilErr) =>
    /\ ~last.panic
    /\ last.ret.err = last.entry
    /\ last.ret.resp = NilResp
    /\ ~last.sent
    /\ last.log = <<>>
    /\ agent.Error = last.entry

StickyErrorWitness ==
  /\ last.op = "Do"
  /\ last.entry \in MarshalErrs
  /\ last.ret.err = last.entry
  /\ ~last.sent

\* C2: once a marshal has set the sticky error, no later call clears it.
StickyErrorNeverCleared == [][agent.Error \in MarshalErrs => agent'.Error # NilErr]_vars

\* C3: a run of Do that starts without a sticky error builds a request
\* whose method is the argument of the latest Method call (the
\* constructor's verb when there was none), whatever other builder calls
\* were made.
MethodIsLastMethodCall ==
  (RanDo /\ last.entry = NilErr /\ ~last.panic) =>
    /\ last.req.built
    /\ last.req.Method = hist.lastMethod

\* C4: the query of the wire request, and the value of QueryGet, hold every
\* (key, value) as often as the original URL has it plus as often as the
\* query mutators have it on record; QueryDel takes nothing of the URL away.
QueryIsMultisetUnion ==
  /\ last.sent =>
       \A p \in Keys \X Vals :
         Count(last.req.RawQuery, p) = Count(agent.u, p) + hist.added[p]
  /\ last.sent => \A i \in DOMAIN last.req.RawQuery : last.req.RawQuery[i] \in Keys \X Vals
  /\ last.op = "QueryGet" =>
       \A p \in Keys \X Vals :
         Count(last.values[p[1]], p[2]) = Count(agent.u, p) + hist.added[p]

QueryUnionWitness ==
  /\ last.sent
  /\ Count(agent.u, <<"a", "1">>) = 1
  /\ hist.added[<<"a", "1">>] = 1
  /\ hist.added[<<"a", "2">>] = 1
  /\ hist.added[<<"b", "1">>] = 0
  /\ Count(last.req.RawQuery, <<"a", "1">>) = 2
  /\ Count(last.req.RawQuery, <<"b", "1">>) = 1

\* C5: with a non-empty file list the request on the wire is multipart:
\* its Content-Type is the boundary value and its body has one part per
\* file, whatever body-encoding calls were made and in whichever order.
FilesForceMultipart ==
  (last.sent /\ Len(agent.files) > 0) =>
    /\ last.req.Header["Content-Type"] = <<FormDataContentType>>
    /\ NumParts(last.req.Body) = Len(agent.files)
    /\ last.req.Body = MultipartBody(agent.files)

\* C6: with a cipher, the body the transport sends is the encrypted body,
\* and decrypting it gives the body the body-encoding call had set.
WireBodyIsEncrypted ==
  (last.sent /\ agent.cipher) =>
    /\ last.req.Body = Encrypt(last.entryData.rest)
    /\ Decrypt(last.req.Body) = last.entryData.rest

\* C7: when the transport fails, Do returns the transport's error and no
\* response, and does not panic, whatever the cipher, the debug flag and
\* the response processor are.
TransportErrorPropagates ==
  (RanDo /\ last.sent /\ last.terr # NilErr) =>
    /\ ~last.panic
    /\ last.ret.err = last.terr
    /\ last.ret.resp = NilResp
    /\ Count(last.log, "transport") = 1

\* C8: a decode helper that gets a response whose status is not 200 OK
\* returns that status code and a non-nil error and stores nothing in the
\* target; the decoder runs, and a decode error arises, on 200 OK alone.
DecodeOps == {"Bytes", "Text", "JSON", "JSONPB", "XML"}
DecodeErrs == {Err("json: decode"), Err("xml: decode"), Err("jsonpb: decode")}
StatusClassification ==
  (last.op \in DecodeOps /\ ~last.panic) =>
    /\ (last.ret.err = NilErr /\ last.ret.resp.StatusCode # StatusOK) =>
         /\ last.code = last.ret.resp.StatusCode
         /\ last.err # NilErr
         /\ ~last.decoded
         /\ last.target = <<>>
         /\ last.body = <<>>
    /\ (last.decoded \/ (last.entry = NilErr /\ last.err \in DecodeErrs)) =>
         /\ last.ret.err = NilErr
         /\ last.ret.resp.StatusCode = StatusOK

StatusClassificationWitness ==
  /\ last.op = "JSON"
  /\ last.ret.err = NilErr
  /\ last.ret.resp.StatusCode = 404
  /\ last.code = 404
  /\ last.err # NilErr
  /\ ~last.decoded

\* C9: with no files, the Content-Type on the wire is the MIME type of the
\* latest body-encoding call, text/html when there was none, whatever
\* Content-Type the header mutators had set.
MIMEOfBodyCall(name) ==
  CASE name = "FormData" -> "application/x-www-form-urlencoded"
    [] name \in {"JSONData", "PBData"} -> "application/json"
    [] name = "XMLData" -> "application/xml"
    [] OTHER -> "text/html"
ContentTypeFollowsBodyCall ==
  (last.sent /\ Len(agent.files) = 0 /\ hist.lastBody # "FileData") =>
    last.req.Header["Content-Type"] = <<MIMEOfBodyCall(hist.lastBody)>>

HelperOps == {"Status", "Bytes", "Text", "JSON", "JSONPB", "XML"}

\* C11: a helper that returns a non-nil error leaves a.Error non-nil; a
\* later call of Do or of a helper, with no body-encoding call since that
\* helper, does not invoke the transport and returns a non-nil error, and
\* a helper then reports the status code 500.
HelperErrorSticks ==
  /\ (last.op \in HelperOps /\ ~last.panic /\ last.err # NilErr) =>
       agent.Error # NilErr
  /\ (RanDo /\ last.stuck) =>
       /\ ~last.panic
       /\ ~last.sent
       /\ Count(last.log, "transport") = 0
       /\ last.ret.err # NilErr
       /\ last.op \in HelperOps =>
            (last.code = StatusInternalServerError /\ last.err # NilErr)

\* after a helper met a status other than 200, a helper reports 500
HelperErrorWitness ==
  /\ last.op \in HelperOps
  /\ last.stuck
  /\ last.entry \in {Errorf(<<c>>) : c \in Statuses \ {StatusOK}}
  /\ last.code = StatusInternalServerError
  /\ ~last.sent

====
